---- MODULE Spec2Model ----
(***************************************************************************)
(* Model of src/task1_copy_sort.py: the asynchronous copier that sorts the *)
(* files of a source tree into per-extension folders of a destination      *)
(* tree (main_async, copy_file_task, compute_hash).                        *)
(*                                                                         *)
(* A file name is a sequence of one-character strings, a path a sequence   *)
(* of names.  A file's content is a sequence of chunks (one chunk = one    *)
(* CHUNK_SIZE read); chunk 0 is the zero-filled hole a write past the end  *)
(* of a truncated file leaves behind.  Every step of a worker is the code  *)
(* between two suspension points (await) of copy_file_task.                *)
(***************************************************************************)
EXTENDS Integers, Sequences, FiniteSets, TLC

\* ------------------------------------------------------------- bounds
MaxFiles == 2       \* source directories d1..dMaxFiles, at most one file each
MaxRuns == 2        \* invocations of main_async on the same arguments
MaxCapacity == 2    \* the limiter capacity (MAX_CONCURRENT, 100 in the source)
                    \* ranges over 1..MaxCapacity

\* ------------------------------------------------------------- strings
NameA      == <<"a">>
NameATxt   == <<"a", ".", "t", "x", "t">>
NameAUpper == <<"a", ".", "T", "X", "T">>
NameA0Txt  == <<"a", "_", "0", ".", "t", "x", "t">>

\* str.lower() on the characters the model uses
LowerChar(ch) ==
    CASE ch = "T" -> "t"
      [] ch = "X" -> "x"
      [] OTHER -> ch

Lower(s) == [i \in 1..Len(s) |-> LowerChar(s[i])]

\* str.lstrip(".")
RECURSIVE LStripDot(_)
LStripDot(s) ==
    IF s # <<>> /\ Head(s) = "." THEN LStripDot(Tail(s)) ELSE s

\* str.rfind("."), 1-based, 0 when there is no dot
LastDot(name) ==
    LET dots == {i \in 1..Len(name) : name[i] = "."}
    IN IF dots = {} THEN 0 ELSE CHOOSE i \in dots : \A j \in dots : j <= i

\* pathlib: a suffix starts at the last dot, which is neither the first nor
\* the last character of the name
HasSuffix(name) == 1 < LastDot(name) /\ LastDot(name) < Len(name)

Suffix(name) ==
    IF HasSuffix(name) THEN SubSeq(name, LastDot(name), Len(name)) ELSE <<>>

Stem(name) ==
    IF HasSuffix(name) THEN SubSeq(name, 1, LastDot(name) - 1) ELSE name

NoExtension == <<"no_extension">>

\* faulty variant of ExtFolder: the suffix is not lower-cased
ExtFolderNoLower(name) ==
    IF LStripDot(Suffix(name)) = <<>> THEN NoExtension ELSE LStripDot(Suffix(name))

\* src_path.suffix.lower().lstrip(".") or "no_extension"
ExtFolder(name) ==
    IF LStripDot(Lower(Suffix(name))) = <<>>
    THEN NoExtension
    ELSE LStripDot(Lower(Suffix(name)))

\* ------------------------------------------------------------- paths
SrcRoot   == << <<"src">> >>
DstPlain  == << <<"dist">> >>
DstNested == << <<"src">>, <<"dist">> >>

SrcDir(i) == SrcRoot \o << <<"d", ToString(i)>> >>

Name(p) == p[Len(p)]

\* Path.parents: every proper prefix of the path
Parents(p) == {SubSeq(p, 1, k) : k \in 0..(Len(p) - 1)}

\* ------------------------------------------------------------- contents
Contents == {<<1>>, <<2>>, <<1, 2>>}

Size(c) == Len(c)

\* hash_obj.update(chunk): injective on chunk sequences
HashUpdate(acc, chunk) == acc * 3 + chunk

RECURSIVE HashFold(_, _)
HashFold(acc, c) ==
    IF c = <<>> THEN acc ELSE HashFold(HashUpdate(acc, Head(c)), Tail(c))

\* hexdigest() as two words: the first stands for the first 8 hex characters,
\* the second for the other 56.  Distinct contents have distinct digests and
\* may share the first word.
HexDigest(acc) == <<ToString(acc % 2), ToString(acc \div 2)>>

\* compute_hash of a stream read to its end
Digest(c) == HexDigest(HashFold(1, c))

\* src_hash[:8]
ShortHash(h) == SubSeq(h, 1, 1)

\* faulty variant of NewName: the hash goes after the suffix
NewNameAfterSuffix(name, h) == name \o <<"_">> \o ShortHash(h)

\* f"{src_path.stem}_{short_hash}{src_path.suffix}"
NewName(name, h) == Stem(name) \o <<"_">> \o ShortHash(h) \o Suffix(name)

\* faulty variant of WriteAt: the chunk does not reach the file
WriteAtDropped(c, pos, chunk) == c

\* a write of one chunk at chunk offset pos through a handle of its own
WriteAt(c, pos, chunk) ==
    IF pos < Len(c)
    THEN [c EXCEPT ![pos + 1] = chunk]
    ELSE c \o [i \in 1..(pos - Len(c)) |-> 0] \o <<chunk>>

\* ------------------------------------------------------------- state
VARIABLES
    dst_path,   \* main_async: dst.resolve()
    capacity,   \* MAX_CONCURRENT, the capacity the limiter is created with
    fs,         \* the regular files: path -> content
    dirs,       \* the directories
    run,        \* number of the current invocation of main_async
    pcMain,     \* main_async: "idle", "gather", "done" or "raised"
    completed,  \* "Processing completed." records logged by this invocation
    tasks,      \* tasks[t]: the source path of worker t
    fsAt,       \* fsAt[r]: the files as they were when invocation r started
    sem,        \* free slots of the limiter
    waiters,    \* workers suspended in sem.acquire(), in arrival order
    tk          \* tk[t]: the state of worker t

vars == <<dst_path, capacity, fs, dirs, run, pcMain, completed, tasks, fsAt,
          sem, waiters, tk>>

argVars == <<dst_path, capacity>>
runVars == <<run, completed, tasks, fsAt>>

FailPoints ==
    {"makedirs", "stat", "hash_src", "hash_dst", "open_src", "open_dst",
     "read", "write"}

\* a worker that has been created and has not run yet
NewTask ==
    [pc |-> "created",      \* the suspension point the worker is at
     dest_file |-> <<>>,    \* dest_file
     src_hash |-> <<>>,     \* src_hash
     dst_read |-> <<>>,     \* chunks compute_hash(dest_file) has read so far
     pos |-> 0,             \* chunks copied so far
     obs |-> "none",        \* what the exists/size/hash checks have found
     info |-> <<>>,         \* INFO records logged for the file
     errs |-> <<>>,         \* ERROR records logged for the file
     wrote |-> {},          \* paths the worker has opened for writing
     hashed |-> <<>>]       \* paths the worker has hashed

\* ------------------------------------------------------------- Init
NoFile == <<>>

\* the file of source directory d: none, or a name and a content.  The first
\* directory holds a.txt when the tree is not empty.
SrcChoices(d) ==
    IF d = 1
    THEN {NoFile} \cup {<<NameATxt, c>> : c \in Contents}
    ELSE {NoFile} \cup
         {<<n, c>> : n \in {NameATxt, NameAUpper, NameA, NameA0Txt}, c \in Contents}

\* what the destination root holds before the first run: nothing, one file
\* in an extension folder, or one file directly under the root
PreChoices ==
    {NoFile}
    \cup {<<<<ExtFolder(n), n>>, c>> : n \in {NameATxt, NameA0Txt}, c \in Contents}
    \cup {<<<<NameATxt>>, <<1>>>>}

InitFiles(dst, pick, pre) ==
    LET srcs == {d \in 1..MaxFiles : pick[d] # NoFile}
        sp(d) == SrcDir(d) \o <<pick[d][1]>>
        pp == dst \o pre[1]
        dom == {sp(d) : d \in srcs} \cup (IF pre = NoFile THEN {} ELSE {pp})
    IN [p \in dom |->
          IF pre # NoFile /\ p = pp
          THEN pre[2]
          ELSE pick[CHOOSE d \in srcs : sp(d) = p][2]]

InitDirs(dst, srcOK, pre) ==
    (IF srcOK THEN {SrcRoot} \cup {SrcDir(d) : d \in 1..MaxFiles} ELSE {})
    \cup (IF pre = NoFile THEN {}
          ELSE {SubSeq(dst \o pre[1], 1, k) : k \in 1..(Len(dst \o pre[1]) - 1)})

Init ==
    \E dst \in {DstPlain, DstNested}, cap \in 1..MaxCapacity, srcOK \in BOOLEAN,
       pre \in PreChoices :
    \E pick \in [1..MaxFiles -> UNION {SrcChoices(d) : d \in 1..MaxFiles}] :
        /\ \A d \in 1..MaxFiles : pick[d] \in SrcChoices(d)
        /\ pick[1] = NoFile => \A d \in 1..MaxFiles : pick[d] = NoFile
        \* a source path that is no directory: nothing beneath it
        /\ ~srcOK => pick[1] = NoFile /\ dst = DstPlain /\ cap = 1
        /\ dst_path = dst
        /\ capacity = cap
        /\ fs = InitFiles(dst, pick, pre)
        /\ dirs = InitDirs(dst, srcOK, pre)
        /\ run = 1
        /\ pcMain = "idle"
        /\ completed = 0
        /\ tasks = <<>>
        /\ fsAt = <<InitFiles(dst, pick, pre)>>
        /\ sem = 0
        /\ waiters = <<>>
        /\ tk = <<>>

\* ------------------------------------------------------------- main_async
\* faulty variant of Dispatched: only the files directly in the destination root are
\* left out
DispatchedDirectChildren(all_files, dst) ==
    {f \in all_files : SubSeq(f, 1, Len(f) - 1) # dst}

\* files = [f for f in all_files if dst_path not in f.parents]
Dispatched(all_files, dst) == {f \in all_files : dst \notin Parents(f)}

\* src_path.rglob("*") filtered by is_file()
AllFiles == {p \in DOMAIN fs : SrcRoot \in Parents(p)}

SeqOf(S) ==
    CHOOSE s \in [1..Cardinality(S) -> S] : \A i, j \in DOMAIN s : s[i] = s[j] => i = j

\* faulty variant of IsDir: the source path is not validated
IsDirAlways(p, ds) == TRUE

\* src_path.is_dir()
IsDir(p, ds) == p \in ds

\* faulty variant of ExtDirs: no extension folder is created ahead of the
\* tasks
ExtDirsNone(files) == {}

\* ext_dirs = { (f.suffix.lower().lstrip(".") or "no_extension") for f in files }
ExtDirs(files) == {ExtFolder(Name(f)) : f \in files}

\* main_async up to the await of gather: validate, create the destination
\* root, enumerate, filter, create the extension folders, create the limiter
\* and the tasks
MainStart ==
    /\ pcMain = "idle"
    /\ IF ~IsDir(SrcRoot, dirs)
       THEN /\ pcMain' = "raised"
            /\ UNCHANGED <<dirs, tasks, tk, sem>>
       ELSE LET files == Dispatched(AllFiles, dst_path)
                ext_dirs == ExtDirs(files)
            IN /\ dirs' = dirs
                          \cup {SubSeq(dst_path, 1, k) : k \in 1..Len(dst_path)}
                          \cup {dst_path \o <<e>> : e \in ext_dirs}
               /\ tasks' = SeqOf(files)
               /\ tk' = [t \in 1..Cardinality(files) |-> NewTask]
               /\ sem' = capacity
               /\ pcMain' = "gather"
    /\ UNCHANGED <<argVars, fs, run, completed, waiters, fsAt>>

\* faulty variant of GatherReturns: the wait ends with the first finished task
GatherReturnsOnFirst == \E t \in DOMAIN tk : tk[t].pc = "done"

\* await asyncio.gather(*tasks)
GatherReturns == \A t \in DOMAIN tk : tk[t].pc = "done"

\* gather returns when every task has finished; then the last record
MainComplete ==
    /\ pcMain = "gather"
    /\ GatherReturns
    /\ pcMain' = "done"
    /\ completed' = completed + 1
    /\ UNCHANGED <<argVars, fs, dirs, run, tasks, fsAt, sem, waiters, tk>>

\* the program is run again on the same arguments (explored after a run
\* that logged no error)
Rerun ==
    /\ pcMain = "done"
    /\ run < MaxRuns
    /\ \A t \in DOMAIN tk : tk[t].errs = <<>>
    /\ run' = run + 1
    /\ pcMain' = "idle"
    /\ completed' = 0
    /\ tasks' = <<>>
    /\ tk' = <<>>
    /\ sem' = 0
    /\ fsAt' = Append(fsAt, fs)
    /\ UNCHANGED <<argVars, fs, dirs, waiters>>

\* ------------------------------------------------------------- the limiter
\* faulty variant of CanAcquire: the limiter lets every worker in
CanAcquireAlways(s, ws) == TRUE

\* faulty variant of CanAcquire: the free slots are not counted
CanAcquireUncounted(s, ws) == ws = <<>>

\* sem.acquire() returns at once: a slot is free and nobody is queued
CanAcquire(s, ws) == s > 0 /\ ws = <<>>

\* faulty variant of ReleaseSlot: the slot is not given back
ReleaseSlotNever(s) == s

\* sem.release(), on leaving "async with sem"
ReleaseSlot(s) == s + 1

\* ------------------------------------------------------------- copy_file_task
SrcOf(t) == tasks[t]

\* faulty variant of DestDir: the files go into the destination root itself
DestDirFlat(t) == dst_path

\* dest_dir = dst_root / ext_folder
DestDir(t) == dst_path \o <<ExtFolder(Name(SrcOf(t)))>>
Natural(t) == DestDir(t) \o <<Name(SrcOf(t))>>

AllStarted == \A u \in DOMAIN tk : tk[u].pc # "created"

\* worker t is suspended at point p and the event loop has run the first
\* step of every task
At(t, p) == pcMain = "gather" /\ tk[t].pc = p /\ AllStarted

\* faulty variant of Caught: only the copy loop is inside the try block
CaughtInCopyOnly(at) == at \in {"open_src", "open_dst", "read", "write"}

\* except (PermissionError, OSError): every failure of a file or directory
\* operation is an OSError
Caught(at) ==
    at \in {"makedirs", "stat", "hash_src", "hash_dst", "open_src", "open_dst",
            "read", "write"}

\* faulty variant of Failed: the error is logged twice
FailedLoggedTwice(w, at) ==
    [w EXCEPT !.pc = "done", !.errs = Append(Append(@, at), at)]

\* faulty variant of Failed: after the error record the file is tried again
FailedRetried(w, at) == [w EXCEPT !.pc = "makedirs", !.errs = Append(@, at)]

\* logging.error(...), and the worker returns
Failed(w, at) == [w EXCEPT !.pc = "done", !.errs = Append(@, at)]

\* an exception leaves the task: caught, it is logged and the task ends;
\* uncaught, gather re-raises it in main_async and the other tasks are
\* cancelled when the event loop shuts down.  The slot is released either way.
Raise(t, at) ==
    /\ tk' = IF Caught(at)
             THEN [tk EXCEPT ![t] = Failed(@, at)]
             ELSE [u \in DOMAIN tk |->
                     IF u = t THEN [tk[u] EXCEPT !.pc = "done"]
                     ELSE IF tk[u].pc = "done" THEN tk[u]
                     ELSE [tk[u] EXCEPT !.pc = "cancelled"]]
    /\ pcMain' = IF Caught(at) THEN pcMain ELSE "raised"
    /\ sem' = ReleaseSlot(sem)

\* first step of a task: async with sem
Start(t) ==
    /\ pcMain = "gather"
    /\ tk[t].pc = "created"
    /\ IF CanAcquire(sem, waiters)
       THEN /\ sem' = sem - 1
            /\ tk' = [tk EXCEPT ![t].pc = "makedirs"]
            /\ UNCHANGED waiters
       ELSE /\ waiters' = Append(waiters, t)
            /\ tk' = [tk EXCEPT ![t].pc = "waiting"]
            /\ UNCHANGED sem
    /\ UNCHANGED <<argVars, runVars, fs, dirs, pcMain>>

\* the first waiter is woken by a release
Resume(t) ==
    /\ At(t, "waiting")
    /\ waiters # <<>> /\ Head(waiters) = t
    /\ sem > 0
    /\ sem' = sem - 1
    /\ waiters' = Tail(waiters)
    /\ tk' = [tk EXCEPT ![t].pc = "makedirs"]
    /\ UNCHANGED <<argVars, runVars, fs, dirs, pcMain>>

\* faulty variant of Renamed: the rename branch logs no INFO record
RenamedUnlogged(w, t, h, why) ==
    [w EXCEPT !.pc = "open",
              !.src_hash = h,
              !.dest_file = DestDir(t) \o <<NewName(Name(SrcOf(t)), h)>>]

\* the rename branch: new name from the source hash, INFO record
Renamed(w, t, h, why) ==
    [w EXCEPT !.pc = "open",
              !.src_hash = h,
              !.dest_file = DestDir(t) \o <<NewName(Name(SrcOf(t)), h)>>,
              !.info = Append(@, why)]

\* faulty variant of SameSize: the size check never passes
SameSizeNever(src_size, dst_size) == FALSE

\* faulty variant of SameSize: a smaller existing file passes the size check
SameSizeOrSmaller(src_size, dst_size) == dst_size <= src_size

\* faulty variant of SameSize: the size check always passes
SameSizeAlways(src_size, dst_size) == TRUE

\* if src_size == dst_size
SameSize(src_size, dst_size) == src_size = dst_size

\* makedirs returns; exists() and the two stat() calls: a new file goes to
\* the copy, an existing file of the same size to the hashing of both files
\* ("hash_src"), one of another size to the hashing of the source alone
\* ("hash_src_ne")
Makedirs(t) ==
    /\ At(t, "makedirs")
    /\ \/ /\ Raise(t, "makedirs")
          /\ UNCHANGED dirs
       \/ /\ Natural(t) \in DOMAIN fs
          /\ Raise(t, "stat")
          /\ dirs' = dirs \cup {DestDir(t)}
       \/ /\ dirs' = dirs \cup {DestDir(t)}
          /\ tk' = [tk EXCEPT ![t] =
                IF Natural(t) \in DOMAIN fs
                THEN [@ EXCEPT !.pc = IF SameSize(Size(fs[SrcOf(t)]), Size(fs[Natural(t)]))
                                     THEN "hash_src" ELSE "hash_src_ne",
                               !.dest_file = Natural(t),
                               !.obs = IF Size(fs[SrcOf(t)]) = Size(fs[Natural(t)])
                                       THEN "size_eq" ELSE "size_ne"]
                ELSE [@ EXCEPT !.pc = "open",
                               !.dest_file = Natural(t),
                               !.obs = "absent",
                               !.info = Append(@, "copying")]]
          /\ UNCHANGED <<sem, pcMain>>
    /\ UNCHANGED <<argVars, runVars, fs, waiters>>

\* src_hash = await compute_hash(src_path); the source is not written during
\* the run, so its reads are one step
HashSrc(t) ==
    /\ At(t, "hash_src") \/ At(t, "hash_src_ne")
    /\ \/ Raise(t, "hash_src")
       \/ /\ tk' = [tk EXCEPT ![t] =
                LET w == [@ EXCEPT !.hashed = Append(@, SrcOf(t))]
                    h == Digest(fs[SrcOf(t)])
                IN IF w.pc = "hash_src"
                   THEN [w EXCEPT !.pc = "hash_dst", !.src_hash = h]
                   ELSE Renamed(w, t, h, "renamed_size")]
          /\ UNCHANGED <<sem, pcMain>>
    /\ UNCHANGED <<argVars, runVars, fs, dirs, waiters>>

\* faulty variant of SkipIf: identical content is copied under the new name as well
SkipNever(src_hash, dst_hash) == FALSE

\* if src_hash == dst_hash: ... return
SkipIf(src_hash, dst_hash) == src_hash = dst_hash

\* dst_hash = await compute_hash(dest_file): one read of the existing file
\* per step, then the comparison of the two hashes
HashDst(t) ==
    /\ At(t, "hash_dst")
    /\ \/ /\ Raise(t, "hash_dst")
          /\ UNCHANGED fs
       \/ LET c == fs[Natural(t)]
              k == Len(tk[t].dst_read)
              w == [tk[t] EXCEPT
                      !.hashed = Append(@, Natural(t)),
                      !.obs = IF tk[t].src_hash = Digest(tk[t].dst_read)
                              THEN "hash_eq" ELSE "hash_ne"]
          IN /\ IF k < Len(c)
                THEN /\ tk' = [tk EXCEPT ![t].dst_read = Append(@, c[k + 1])]
                     /\ UNCHANGED sem
                ELSE IF SkipIf(tk[t].src_hash, Digest(tk[t].dst_read))
                THEN /\ tk' = [tk EXCEPT ![t] =
                            [w EXCEPT !.pc = "done", !.info = Append(@, "skipped")]]
                     /\ sem' = ReleaseSlot(sem)
                ELSE /\ tk' = [tk EXCEPT ![t] =
                            Renamed(w, t, tk[t].src_hash, "renamed_hash")]
                     /\ UNCHANGED sem
             /\ UNCHANGED <<fs, pcMain>>
    /\ UNCHANGED <<argVars, runVars, dirs, waiters>>

\* faulty variant of OpenWb: an existing file is opened as it is
OpenWbKeeping(f, p) ==
    [q \in DOMAIN f \cup {p} |-> IF q \in DOMAIN f THEN f[q] ELSE <<>>]

\* the files after open(p, "wb"): p is created, or truncated when it exists
OpenWb(f, p) ==
    [q \in DOMAIN f \cup {p} |-> IF q = p THEN <<>> ELSE f[q]]

\* aiofiles.open(src_path, "rb"), then aiofiles.open(dest_file, "wb"), which
\* creates the file or truncates it
Open(t) ==
    /\ At(t, "open")
    /\ \/ /\ Raise(t, "open_src")
          /\ UNCHANGED fs
       \/ /\ Raise(t, "open_dst")
          /\ UNCHANGED fs
       \/ /\ fs' = OpenWb(fs, tk[t].dest_file)
          /\ tk' = [tk EXCEPT ![t].pc = "copy",
                              ![t].pos = 0,
                              ![t].wrote = @ \cup {tk[t].dest_file}]
          /\ UNCHANGED <<sem, pcMain>>
    /\ UNCHANGED <<argVars, runVars, dirs, waiters>>

\* one turn of the copy loop: read a chunk of the source and write it, or
\* read the end of the source, close both files and leave
Copy(t) ==
    /\ At(t, "copy")
    /\ \/ /\ Raise(t, "read")
          /\ UNCHANGED fs
       \/ /\ tk[t].pos < Len(fs[SrcOf(t)])
          /\ Raise(t, "write")
          /\ UNCHANGED fs
       \/ /\ IF tk[t].pos < Len(fs[SrcOf(t)])
             THEN /\ fs' = [fs EXCEPT ![tk[t].dest_file] =
                              WriteAt(@, tk[t].pos, fs[SrcOf(t)][tk[t].pos + 1])]
                  /\ tk' = [tk EXCEPT ![t].pos = @ + 1]
                  /\ UNCHANGED sem
             ELSE /\ tk' = [tk EXCEPT ![t].pc = "done"]
                  /\ sem' = ReleaseSlot(sem)
                  /\ UNCHANGED fs
          /\ UNCHANGED pcMain
    /\ UNCHANGED <<argVars, runVars, dirs, waiters>>

Next ==
    \/ MainStart
    \/ MainComplete
    \/ Rerun
    \/ \E t \in DOMAIN tk : Start(t)
    \/ \E t \in DOMAIN tk : Resume(t)
    \/ \E t \in DOMAIN tk : Makedirs(t)
    \/ \E t \in DOMAIN tk : HashSrc(t)
    \/ \E t \in DOMAIN tk : HashDst(t)
    \/ \E t \in DOMAIN tk : Open(t)
    \/ \E t \in DOMAIN tk : Copy(t)

Spec == Init /\ [][Next]_vars

\* the event loop runs every ready task and every I/O operation ends (with
\* a result or an error), so some enabled step is always taken
\* one invocation of main_async
OneRun ==
    \/ MainStart
    \/ MainComplete
    \/ \E t \in DOMAIN tk : Start(t)
    \/ \E t \in DOMAIN tk : Resume(t)
    \/ \E t \in DOMAIN tk : Makedirs(t)
    \/ \E t \in DOMAIN tk : HashSrc(t)
    \/ \E t \in DOMAIN tk : HashDst(t)
    \/ \E t \in DOMAIN tk : Open(t)
    \/ \E t \in DOMAIN tk : Copy(t)

FairSpec == Init /\ [][OneRun]_vars /\ WF_vars(OneRun)

\* ------------------------------------------------------------- properties
Workers == DOMAIN tk

\* worker t has acquired a slot and not released it
Holding(t) ==
    tk[t].pc \in {"makedirs", "hash_src", "hash_src_ne", "hash_dst", "open", "copy"}

Holders == {t \in Workers : Holding(t)}

SrcValid == SrcRoot \in dirs

\* C1: at every moment the number of workers that hold a limiter slot
\* (resolving, hashing or copying) is at most the limiter capacity, also
\* when more files are dispatched than the limiter has slots.
C1_ConcurrencyBound == Cardinality(Holders) <= capacity

\* more files than slots: every slot taken by a worker that has its files
\* open, another worker queued
C1_Witness ==
    /\ Len(tasks) > capacity
    /\ Cardinality(Holders) = capacity
    /\ waiters # <<>>
    /\ \E t \in Workers : tk[t].pc = "copy" /\ tk[t].pos > 0

\* C4: every acquired slot is released exactly once on every path through
\* the worker: free slots plus holders is the capacity in every state of a
\* run, the free slots never exceed the capacity, and all are free once the
\* run has completed.
C4_SlotConservation ==
    pcMain \in {"gather", "done"} =>
        /\ sem + Cardinality(Holders) = capacity
        /\ sem >= 0 /\ sem <= capacity
        /\ (pcMain = "done" => sem = capacity /\ Holders = {})

\* a completed run in which one worker left by the early return and another
\* by a caught error
C4_Witness ==
    /\ pcMain = "done"
    /\ \E t, u \in Workers :
         /\ tk[t].info = <<"skipped">>
         /\ tk[u].errs # <<>>

\* ---- the paths of the specification
Fs0 == fsAt[run]

Content(t) == fs[SrcOf(t)]

\* the extension folder of each name: the lower-cased extension, or
\* no_extension
ExpectedFolder(name) ==
    CASE name = NameATxt -> <<"t", "x", "t">>
      [] name = NameAUpper -> <<"t", "x", "t">>
      [] name = NameA0Txt -> <<"t", "x", "t">>
      [] name = NameA -> <<"no_extension">>

\* dest/<ext>/<name>
NaturalPath(t) == dst_path \o <<ExpectedFolder(Name(SrcOf(t))), Name(SrcOf(t))>>

\* dest/<ext>/<stem>_<first 8 hex characters of the source hash><suffix>
RenamePath(t) ==
    dst_path \o <<ExpectedFolder(Name(SrcOf(t))),
                  Stem(Name(SrcOf(t))) \o <<"_", Digest(Content(t))[1]>>
                      \o Suffix(Name(SrcOf(t)))>>

\* ---- what a worker does when no other worker and no error interferes
\* no other worker of the run reads or writes a path worker t reads or writes
Independent(t) ==
    \A u \in Workers \ {t} :
        {NaturalPath(u), RenamePath(u)} \cap {NaturalPath(t), RenamePath(t)} = {}

\* the record worker t logs when it meets the files f: the resolver of the
\* specification (absent, sizes differ, contents equal, contents differ)
RefKind(f, t) ==
    IF NaturalPath(t) \notin DOMAIN f THEN "copying"
    ELSE IF Size(f[NaturalPath(t)]) # Size(Content(t)) THEN "renamed_size"
    ELSE IF f[NaturalPath(t)] = Content(t) THEN "skipped"
    ELSE "renamed_hash"

RefTarget(f, t) == IF RefKind(f, t) = "copying" THEN NaturalPath(t) ELSE RenamePath(t)

\* the files after worker t has run alone on the files f
RefAfter(f, t) ==
    IF RefKind(f, t) = "skipped" THEN f
    ELSE [p \in DOMAIN f \cup {RefTarget(f, t)} |->
            IF p = RefTarget(f, t) THEN Content(t) ELSE f[p]]

\* the files after the workers of the sequence o have run one after another
RECURSIVE RefRun(_, _)
RefRun(f, o) == IF o = <<>> THEN f ELSE RefRun(RefAfter(f, Head(o)), Tail(o))

Orders == {o \in [1..Cardinality(Workers) -> Workers] :
             \A i, j \in DOMAIN o : o[i] = o[j] => i = j}

\* the record of worker t in the error-free sequential run in order o
RefSeqKind(o, t) ==
    LET i == CHOOSE k \in DOMAIN o : o[k] = t
    IN RefKind(RefRun(Fs0, SubSeq(o, 1, i - 1)), t)

\* worker t ended as it does alone on the files the run started with
AsAlone(t) ==
    /\ tk[t].info = <<RefKind(Fs0, t)>>
    /\ RefKind(Fs0, t) # "skipped" =>
         /\ RefTarget(Fs0, t) \in DOMAIN fs
         /\ fs[RefTarget(Fs0, t)] = Content(t)
         /\ tk[t].wrote = {RefTarget(Fs0, t)}
    /\ RefKind(Fs0, t) = "skipped" => tk[t].wrote = {}
    /\ NaturalPath(t) \in DOMAIN Fs0 => fs[NaturalPath(t)] = Fs0[NaturalPath(t)]

\* C2 (as stated): a failure is caught and logged in its worker, aborts
\* nothing, and every other file ends exactly as it would have without the
\* failure.  With one slot the workers run one after another, so without
\* the failure the records are those of an error-free sequential run.
C2_AsWithoutFailure ==
    (pcMain = "done" /\ capacity = 1) =>
        \E o \in Orders :
            \A t \in Workers : tk[t].errs = <<>> => tk[t].info = <<RefSeqKind(o, t)>>

\* the error-free runs with one slot are the sequential runs
C2_SequentialReference ==
    (pcMain = "done" /\ capacity = 1 /\ \A t \in Workers : tk[t].errs = <<>>) =>
        \E o \in Orders :
            /\ \A t \in Workers : tk[t].info = <<RefSeqKind(o, t)>>
            /\ fs = RefRun(Fs0, o)

\* C2 (amended): a failure is caught and logged once in its worker and
\* aborts neither a sibling nor the run; every worker runs to its end, and
\* every other file that shares no destination path (natural path or
\* rename target) with another dispatched file ends exactly as it does
\* alone, whatever fails.
C2_FailureIsolation ==
    /\ SrcValid => pcMain # "raised"
    /\ \A t \in Workers :
         /\ tk[t].pc # "cancelled"
         /\ Len(tk[t].errs) <= 1
         /\ tk[t].errs # <<>> => tk[t].pc = "done" /\ tk[t].errs[1] \in FailPoints
    /\ pcMain = "done" =>
         \A t \in Workers :
            /\ tk[t].pc = "done"
            /\ (tk[t].errs = <<>> /\ Independent(t)) => AsAlone(t)

\* a completed run in which one worker failed after a sibling that shares
\* no path with it had started, and the sibling made its copy
C2_Witness ==
    /\ pcMain = "done"
    /\ \E t, u \in Workers :
         /\ tk[t].errs = <<"hash_src">>
         /\ tk[u].errs = <<>> /\ Independent(u) /\ tk[u].info = <<"copying">>
         /\ NaturalPath(u) \in DOMAIN fs /\ fs[NaturalPath(u)] = Content(u)

\* every dispatched file is in a terminal outcome
Terminal(t) ==
    /\ tk[t].pc = "done"
    /\ \/ tk[t].errs # <<>>
       \/ /\ Len(tk[t].info) = 1
          /\ tk[t].info[1] \in {"copying", "skipped", "renamed_hash", "renamed_size"}

RunCompleted ==
    /\ pcMain = "done"
    /\ completed = 1
    /\ \A t \in Workers : Terminal(t)
    /\ waiters = <<>>
    /\ sem = capacity

C5_SkipNoWrite ==
    /\ \A t \in Workers :
         tk[t].obs = "hash_eq" =>
            /\ tk[t].wrote = {}
            /\ tk[t].pc = "done"
            /\ tk[t].info = <<"skipped">>
            /\ tk[t].errs = <<>>
    /\ (Workers # {} /\ \A t \in Workers : tk[t].obs = "hash_eq") => fs = Fs0

\* a completed first run whose every worker skipped a duplicate that was
\* in the destination before the run
C5_Witness ==
    /\ pcMain = "done" /\ run = 1
    /\ Workers # {}
    /\ \A t \in Workers : tk[t].obs = "hash_eq" /\ NaturalPath(t) \in DOMAIN Fs0

\* before the run the natural destination path of worker t holds a file of
\* the source's size and another content
SameSizeOtherContent(t) ==
    /\ NaturalPath(t) \in DOMAIN Fs0
    /\ Size(Fs0[NaturalPath(t)]) = Size(Content(t))
    /\ Fs0[NaturalPath(t)] # Content(t)

\* before the run the natural destination path holds a file of another size
OtherSize(t) ==
    /\ NaturalPath(t) \in DOMAIN Fs0
    /\ Size(Fs0[NaturalPath(t)]) # Size(Content(t))

\* the renamed copy is there with the source's content and the file at the
\* natural destination path is as it was
RenamedCopyMade(t) ==
    /\ RenamePath(t) \in DOMAIN fs
    /\ fs[RenamePath(t)] = Content(t)
    /\ fs[NaturalPath(t)] = Fs0[NaturalPath(t)]

\* the rename target of worker t is no path another worker writes, and its
\* natural destination path is no rename target of another worker
TargetUnshared(t) ==
    \A u \in Workers \ {t} :
        /\ RenamePath(t) \notin {NaturalPath(u), RenamePath(u)}
        /\ RenamePath(u) # NaturalPath(t)

\* C6 (as stated): for every source file whose natural destination path
\* holds a file of equal size and different content, the run produces
\* <stem>_<hash8><suffix> with the source's content and leaves the existing
\* file unchanged.  Read in the claim's favour: for the files whose worker
\* logs no error.
C6_RenameOnSameSize ==
    pcMain = "done" =>
        \A t \in Workers :
            (SameSizeOtherContent(t) /\ tk[t].errs = <<>>) => RenamedCopyMade(t)

\* C6 (amended): ... provided the file's worker meets no I/O error, its
\* rename target is no natural destination path or rename target of another
\* dispatched file and its natural destination path is no rename target of
\* another; the worker then logs the rename once and writes the renamed
\* copy only.
C6_RenameOnSameSizeAlone ==
    pcMain = "done" =>
        \A t \in Workers :
            (SameSizeOtherContent(t) /\ tk[t].errs = <<>> /\ TargetUnshared(t)) =>
                /\ RenamedCopyMade(t)
                /\ tk[t].info = <<"renamed_hash">>
                /\ tk[t].wrote = {RenamePath(t)}

\* a completed run with two files, one of which made its renamed copy on
\* the hash comparison
C6_Witness ==
    /\ pcMain = "done"
    /\ Cardinality(Workers) = 2
    /\ \E t \in Workers :
         /\ SameSizeOtherContent(t) /\ tk[t].errs = <<>> /\ TargetUnshared(t)
         /\ tk[t].obs = "hash_ne"
         /\ RenamedCopyMade(t)

Range(q) == {q[i] : i \in DOMAIN q}

\* C7 (as stated): for every source file whose natural destination path
\* holds a file of another size the worker makes the renamed copy, and it
\* never hashes the existing file.  Read in the claim's favour: for the
\* files whose worker logs no error.
C7_RenameOnOtherSize ==
    pcMain = "done" =>
        \A t \in Workers :
            (OtherSize(t) /\ tk[t].errs = <<>>) =>
                /\ RenamedCopyMade(t)
                /\ NaturalPath(t) \notin Range(tk[t].hashed)

\* C7 (amended): a worker that finds a file of another size at its natural
\* destination path never hashes that file, and hashes the source only;
\* provided it meets no I/O error, its rename target is no natural
\* destination path or rename target of another dispatched file and its
\* natural destination path is no rename target of another, it makes the
\* renamed copy and leaves the existing file unchanged.
C7_RenameOnOtherSizeAlone ==
    /\ \A t \in Workers :
         tk[t].obs = "size_ne" =>
            /\ NaturalPath(t) \notin Range(tk[t].hashed)
            /\ Range(tk[t].hashed) \subseteq {SrcOf(t)}
    /\ pcMain = "done" =>
         \A t \in Workers :
            (OtherSize(t) /\ tk[t].errs = <<>> /\ TargetUnshared(t)) =>
                /\ RenamedCopyMade(t)
                /\ tk[t].info = <<"renamed_size">>
                /\ tk[t].hashed = <<SrcOf(t)>>

\* a completed run with two files, one of which made its renamed copy on
\* the size comparison
C7_Witness ==
    /\ pcMain = "done"
    /\ Cardinality(Workers) = 2
    /\ \E t \in Workers :
         /\ OtherSize(t) /\ tk[t].errs = <<>> /\ TargetUnshared(t)
         /\ tk[t].obs = "size_ne"
         /\ RenamedCopyMade(t)

\* C8 (as stated): a second run on the unchanged source and the destination
\* the first run produced creates no file and decides SkipDuplicate for
\* every file, for every source tree and every interleaving of the first
\* run.
C8_Idempotent ==
    run = 2 =>
        /\ DOMAIN fs = DOMAIN Fs0
        /\ \A t \in Workers : tk[t].info # <<>> => tk[t].info = <<"skipped">>

\* the record of worker t in a run that follows an error-free run on the
\* files f
SecondRunKind(f, t) ==
    IF RefKind(f, t) = "copying" THEN "skipped" ELSE RefKind(f, t)

\* C8 (amended): when no two dispatched files share a natural destination
\* path or a rename target, a second run after an error-free first run
\* creates no file; it decides SkipDuplicate for every file whose natural
\* destination path was absent or held the source's content before the
\* first run, and RenameCopy again for the others.
C8_IdempotentAlone ==
    (run = 2 /\ \A t \in Workers : Independent(t)) =>
        /\ DOMAIN fs = DOMAIN Fs0
        /\ \A t \in Workers :
             tk[t].info # <<>> => tk[t].info = <<SecondRunKind(fsAt[1], t)>>

\* a completed second run of two files that share no path, both copied
\* fresh by the first run and skipped by the second
C8_Witness ==
    /\ run = 2 /\ pcMain = "done"
    /\ Cardinality(Workers) = 2
    /\ \A t \in Workers :
         /\ Independent(t)
         /\ NaturalPath(t) \notin DOMAIN fsAt[1]
         /\ tk[t].info = <<"skipped">>

\* C9: a processed file whose natural destination path is absent before the
\* run and is no natural destination path or rename target of another
\* dispatched file, and whose worker meets no I/O error, is afterwards at
\* dest/<lower-cased extension>/<name> (dest/no_extension/<name> without an
\* extension) with the source's content.
C9_FreshCopy ==
    pcMain = "done" =>
        \A t \in Workers :
            ( /\ NaturalPath(t) \notin DOMAIN Fs0
              /\ tk[t].errs = <<>>
              /\ \A u \in Workers \ {t} :
                    NaturalPath(t) \notin {NaturalPath(u), RenamePath(u)} ) =>
                /\ NaturalPath(t) \in DOMAIN fs
                /\ fs[NaturalPath(t)] = Content(t)

\* a.txt and a.TXT, both copied into txt under their own names
C9_Witness ==
    /\ pcMain = "done" /\ run = 1
    /\ \E t, u \in Workers :
         /\ Name(SrcOf(t)) = NameATxt /\ Name(SrcOf(u)) = NameAUpper
         /\ NaturalPath(t) \notin DOMAIN Fs0 /\ NaturalPath(u) \notin DOMAIN Fs0
         /\ tk[t].errs = <<>> /\ tk[u].errs = <<>>
         /\ fs[dst_path \o <<<<"t", "x", "t">>, NameATxt>>] = Content(t)
         /\ fs[dst_path \o <<<<"t", "x", "t">>, NameAUpper>>] = Content(u)

\* path p lies under the destination root, at any depth
UnderDst(p) ==
    Len(p) > Len(dst_path) /\ SubSeq(p, 1, Len(dst_path)) = dst_path

\* C10: no file under the destination root is ever dispatched, at any depth
\* and also with the destination root inside the source root; a later run
\* dispatches no file an earlier run has written.
C10_NoDestinationDispatch ==
    \A t \in DOMAIN tasks :
        /\ ~UnderDst(tasks[t])
        /\ tasks[t] \in DOMAIN fsAt[1]

\* a second run, destination inside the source, that dispatched its files
\* while a file written by the first run lies two levels below the
\* destination root
C10_Witness ==
    /\ run = 2 /\ pcMain = "done"
    /\ dst_path = DstNested
    /\ tasks # <<>>
    /\ \E p \in DOMAIN fs :
         UnderDst(p) /\ Len(p) = Len(dst_path) + 2 /\ p \notin DOMAIN fsAt[1]

\* the directories that hold the files f, up to the root
DirsOf(f) == UNION {Parents(p) \ {<<>>} : p \in DOMAIN f}

\* C11: when the source path is missing or no directory the run ends with
\* NotADirectoryError before any work: the destination root and the
\* extension folders are not created, no limiter and no worker is created,
\* no file is written and "Processing completed." is never logged.
C11_InvalidSourceAborts ==
    ~SrcValid =>
        /\ pcMain \in {"idle", "raised"}
        /\ completed = 0
        /\ dirs = DirsOf(fsAt[1])
        /\ tasks = <<>> /\ tk = <<>>
        /\ sem = 0 /\ waiters = <<>>
        /\ fs = fsAt[1]

\* the run on a missing source has raised and there is no destination root
C11_Witness ==
    /\ ~SrcValid
    /\ pcMain = "raised"
    /\ dst_path \notin dirs

\* C12: the extension folder of every dispatched file exists from the moment
\* the workers are created, before any of them has run, and whenever a
\* worker has opened a destination file for writing the folder of that file
\* exists.
C12_FoldersBeforeDispatch ==
    \A t \in Workers :
        /\ dst_path \o <<ExpectedFolder(Name(SrcOf(t)))>> \in dirs
        /\ \A p \in tk[t].wrote : SubSeq(p, 1, Len(p) - 1) \in dirs

\* one worker is writing into txt while the worker of a file without an
\* extension still waits for a slot and has not run its own makedirs; both
\* folders exist
C12_Witness ==
    \E t, u \in Workers :
        /\ tk[t].pc = "copy" /\ tk[t].wrote # {}
        /\ tk[u].pc = "waiting"
        /\ ExpectedFolder(Name(SrcOf(t))) # ExpectedFolder(Name(SrcOf(u)))
        /\ dst_path \o <<ExpectedFolder(Name(SrcOf(t)))>> \in dirs
        /\ dst_path \o <<ExpectedFolder(Name(SrcOf(u)))>> \in dirs

\* the decisions taken for the file of worker t: each is logged as it is
\* taken ("copying": Fresh, "skipped": SkipDuplicate, "renamed_*": RenameCopy)
Decisions(t) == tk[t].info

\* the worker's error came before its decision: at the folder creation, the
\* stat calls or the hashing
FailedBeforeDecision(t) ==
    /\ tk[t].errs # <<>>
    /\ tk[t].errs[1] \in {"makedirs", "stat", "hash_src", "hash_dst"}

\* C13 as stated: when the run completes every dispatched file has exactly
\* one decision, files that end as logged failures included.
C13_ExactlyOneDecision ==
    pcMain = "done" => \A t \in Workers : Len(Decisions(t)) = 1

\* C13: no dispatched file ever has more than one decision, and when the run
\* completes a file has exactly one decision unless its worker failed before
\* the decision (folder creation, stat, hashing), in which case it has none.
C13_OneDecisionUnlessFailedBefore ==
    \A t \in Workers :
        /\ Len(Decisions(t)) <= 1
        /\ \A i \in DOMAIN Decisions(t) :
              Decisions(t)[i] \in {"copying", "skipped", "renamed_size", "renamed_hash"}
        /\ pcMain = "done" =>
              (Len(Decisions(t)) = 1 <=> ~FailedBeforeDecision(t))

\* a completed run: one file failed at the stat calls and has no decision,
\* the other was renamed and has one
C13_Witness ==
    /\ pcMain = "done"
    /\ \E t, u \in Workers :
         /\ tk[t].errs = <<"stat">> /\ Decisions(t) = <<>>
         /\ tk[u].errs = <<>> /\ Decisions(u) = <<"renamed_size">>

\* worker t has taken its existence check and its copy has not ended
Deciding(t) == tk[t].obs # "none" /\ Holding(t)

\* the workers that are between decision and end of copy for the natural
\* destination path of worker t
DecidingFor(t) ==
    {u \in Workers : Deciding(u) /\ NaturalPath(u) = NaturalPath(t)}

\* C14 as stated: of two files with the same natural destination path, no
\* worker takes its decision between the decision and the end of the copy
\* of the other; two workers never both find the path absent that way.
C14_NoInterleavedDecision ==
    \A t \in Workers : Cardinality(DecidingFor(t)) <= 1

\* C14: decisions on one destination path are kept apart by the limiter
\* alone: the workers between decision and end of copy for one path are
\* never more than the limiter has slots, so none interleave with one slot.
C14_InterleavingWithinCapacity ==
    \A t \in Workers :
        /\ Cardinality(DecidingFor(t)) <= capacity
        /\ (capacity = 1 /\ Deciding(t)) =>
              \A u \in Workers \ {t} : tk[u].obs = "none" \/ tk[u].pc = "done"

\* one slot, two files with the same natural path: the first has been
\* copied, the second has found the copy and is hashing
C14_Witness ==
    /\ capacity = 1
    /\ \E t, u \in Workers :
         /\ t # u /\ NaturalPath(t) = NaturalPath(u)
         /\ tk[t].pc = "done" /\ tk[t].info = <<"copying">> /\ tk[t].errs = <<>>
         /\ Deciding(u) /\ tk[u].obs \in {"size_eq", "size_ne"}

\* the files under the source root and outside the destination root when
\* the run started
ToDispatch == {p \in DOMAIN Fs0 : SrcRoot \in Parents(p) /\ ~UnderDst(p)}

\* one worker for each file to dispatch and for nothing else; the workers
\* take their slots from one limiter; a worker logs at most one error and
\* has returned when it has logged it
OneWorkerEach ==
    pcMain \in {"gather", "done"} =>
        /\ DOMAIN tk = DOMAIN tasks
        /\ \A i, j \in DOMAIN tasks : tasks[i] = tasks[j] => i = j
        /\ Range(tasks) = ToDispatch
        /\ sem + Cardinality(Holders) = capacity
        /\ \A t \in Workers :
              /\ Len(tk[t].errs) <= 1
              /\ tk[t].errs # <<>> => tk[t].pc = "done"

\* a step of a run leaves a worker that has logged an error as it is: no
\* position, read, hash, write or record of that worker changes
NoRetryStep ==
    \A t \in Workers :
        (tk[t].errs # <<>> /\ run' = run) =>
            t \in DOMAIN tk' /\ tk'[t] = tk[t]

\* C15: within one run every non-excluded source file has exactly one worker,
\* all workers share the one limiter, and a worker that has logged a failure
\* does nothing more for its file in that run.
C15_OneWorkerNoRetry == []OneWorkerEach /\ [][NoRetryStep]_vars

\* a worker failed on opening its source and stays as it is while the
\* worker of the other file copies
C15_Witness ==
    /\ pcMain = "gather"
    /\ \E t, u \in Workers :
         /\ tk[t].errs = <<"open_src">> /\ tk[t].pc = "done"
         /\ tk[u].pc = "copy" /\ tk[u].pos > 0

\* C16: a worker that finds its natural destination path absent hashes
\* nothing; the existing destination file is read for hashing only when the
\* sizes were found equal; the source is hashed at most once, and never
\* before the existence and size checks.
C16_HashingOnlyWhenNeeded ==
    \A t \in Workers :
        /\ tk[t].obs \in {"none", "absent"} =>
              tk[t].hashed = <<>> /\ tk[t].dst_read = <<>> /\ tk[t].src_hash = <<>>
        /\ tk[t].obs = "size_ne" =>
              /\ tk[t].dst_read = <<>>
              /\ tk[t].pc # "hash_dst"
              /\ NaturalPath(t) \notin Range(tk[t].hashed)
        /\ tk[t].pc = "hash_dst" => tk[t].obs = "size_eq"
        /\ NaturalPath(t) \in Range(tk[t].hashed) => tk[t].obs \in {"hash_eq", "hash_ne"}
        /\ Cardinality({i \in DOMAIN tk[t].hashed : tk[t].hashed[i] = SrcOf(t)}) <= 1
        /\ Range(tk[t].hashed) \subseteq {SrcOf(t), NaturalPath(t)}
        /\ tk[t].hashed # <<>> => tk[t].hashed[1] = SrcOf(t)

\* a completed run: one file was copied fresh without any hashing, for the
\* other both files were hashed, the source once and first
C16_Witness ==
    /\ pcMain = "done"
    /\ \E t, u \in Workers :
         /\ tk[t].obs = "absent" /\ tk[t].hashed = <<>> /\ tk[t].wrote # {}
         /\ tk[u].obs = "hash_ne" /\ tk[u].hashed = <<SrcOf(u), NaturalPath(u)>>

\* worker t has decided on a renamed copy
RenameDecided(t) ==
    tk[t].info # <<>> /\ tk[t].info[1] \in {"renamed_size", "renamed_hash"}

\* this step ends the copy of worker t without an error
CopyEnds(t) ==
    /\ tk[t].pc = "copy"
    /\ t \in DOMAIN tk' /\ tk'[t].pc = "done" /\ tk'[t].errs = <<>>

\* C17 as stated, for a rename target that holds a file before the run: the
\* worker overwrites it, and when its copy ends without an error the file
\* has the source's content.
C17_OverwritesCollidingTarget ==
    [][\A t \in Workers :
          (CopyEnds(t) /\ RenameDecided(t) /\ RenamePath(t) \in DOMAIN Fs0) =>
              /\ RenamePath(t) \in DOMAIN fs'
              /\ fs'[RenamePath(t)] = Content(t)]_vars

\* no other worker can have written the rename target of worker t while t
\* copied: the limiter has one slot, or no other worker has opened that path
TargetNotRaced(t) ==
    \/ capacity = 1
    \/ \A u \in Workers \ {t} : RenamePath(t) \notin tk[u].wrote

\* C17: a worker that decided on a renamed copy opens the rename target for
\* writing whether or not a file is there, hashes and checks nothing at that
\* path, and when its copy ends without an error and no other worker wrote
\* the path meanwhile, the file has the source's content.
C17_OverwritesUnracedTarget ==
    [][\A t \in Workers :
          (CopyEnds(t) /\ RenameDecided(t) /\ TargetNotRaced(t)) =>
              /\ RenamePath(t) \in DOMAIN fs'
              /\ fs'[RenamePath(t)] = Content(t)
              /\ tk[t].wrote = {RenamePath(t)}
              /\ RenamePath(t) \notin Range(tk[t].hashed)
              /\ Len(tk[t].info) = 1]_vars

\* the rename target held a longer file of another content before the run;
\* the worker has ended its copy without an error and the file has the
\* source's content
C17_Witness ==
    \E t \in Workers :
        /\ tk[t].pc = "done" /\ tk[t].errs = <<>>
        /\ RenameDecided(t)
        /\ RenamePath(t) \in DOMAIN Fs0
        /\ Size(Fs0[RenamePath(t)]) > Size(Content(t))
        /\ fs[RenamePath(t)] = Content(t)

\* the worker's error came before the destination file was opened
FailedBeforeOpen(t) ==
    /\ tk[t].errs # <<>>
    /\ tk[t].errs[1] \in {"makedirs", "stat", "hash_src", "hash_dst", "open_src"}

\* path p is as it was when the run started: absent, or there with the same
\* content
Untouched(p) ==
    IF p \in DOMAIN Fs0
    THEN p \in DOMAIN fs /\ fs[p] = Fs0[p]
    ELSE p \notin DOMAIN fs

\* C18: a worker that fails before the destination file is opened (folder
\* creation, stat, hashing of either file, opening the source) ends with
\* exactly one error record and has created, truncated or written no file;
\* the paths no other worker shares with it are as they were.
C18_FailureBeforeOpenWritesNothing ==
    \A t \in Workers :
        FailedBeforeOpen(t) =>
            /\ tk[t].pc = "done"
            /\ Len(tk[t].errs) = 1
            /\ tk[t].wrote = {} /\ tk[t].pos = 0
            /\ Independent(t) => Untouched(NaturalPath(t)) /\ Untouched(RenamePath(t))

\* a completed run: the existing file had the source's size, the hashing of
\* it failed, and neither the file nor the rename target was touched
C18_Witness ==
    /\ pcMain = "done"
    /\ \E t \in Workers :
         /\ tk[t].errs = <<"hash_dst">>
         /\ Independent(t)
         /\ NaturalPath(t) \in DOMAIN fs
         /\ RenamePath(t) \notin DOMAIN fs
         /\ \E u \in Workers : tk[u].wrote # {}

\* C19: every file a worker has created or written is its natural
\* destination path or its rename target, directly in the extension folder
\* of its source under the destination root; no file changes but by such a
\* write, and no dispatched source file is written, truncated or removed,
\* also with the destination root inside the source root.
C19_WritesConfined ==
    /\ \A t \in Workers :
          /\ tk[t].wrote \subseteq {NaturalPath(t), RenamePath(t)}
          /\ \A p \in tk[t].wrote :
                /\ Len(p) = Len(dst_path) + 2
                /\ SubSeq(p, 1, Len(dst_path)) = dst_path
                /\ p[Len(p) - 1] = ExpectedFolder(Name(SrcOf(t)))
          /\ SrcOf(t) \in DOMAIN fs
          /\ fs[SrcOf(t)] = fsAt[1][SrcOf(t)]
          /\ \A u \in Workers : SrcOf(t) \notin tk[u].wrote
    /\ \A p \in DOMAIN Fs0 : p \in DOMAIN fs
    /\ \A p \in DOMAIN fs :
          ~Untouched(p) => \E t \in Workers : p \in tk[t].wrote

\* destination inside the source: one worker has written its natural
\* destination path and another its rename target, two levels below the
\* destination root
C19_Witness ==
    /\ dst_path = DstNested
    /\ pcMain = "done"
    /\ \E t, u \in Workers :
         /\ tk[t].wrote = {NaturalPath(t)}
         /\ tk[u].wrote = {RenamePath(u)}
         /\ fs[NaturalPath(t)] = Content(t)
         /\ fs[RenamePath(u)] = Content(u)

\* the worker's error came in the copy loop, after both files were opened
FailedInCopy(t) ==
    /\ tk[t].errs # <<>>
    /\ tk[t].errs[1] \in {"read", "write"}

\* C20: the INFO record of the outcome is logged before the files are
\* opened, the destination is created or truncated before the first read,
\* and a worker that fails in the copy loop ends with one INFO record and
\* one ERROR record while the destination file stays, from then on and at
\* the end of the run, with the chunks written so far.
C20_NoRollback ==
    \A t \in Workers :
        /\ tk[t].pc \in {"open", "copy"} =>
              /\ Len(tk[t].info) = 1
              /\ tk[t].info[1] \in {"copying", "renamed_size", "renamed_hash"}
        /\ tk[t].pc = "open" => tk[t].wrote = {} /\ tk[t].pos = 0
        /\ tk[t].pos > 0 => tk[t].wrote # {}
        /\ tk[t].wrote # {} => Len(tk[t].info) = 1
        /\ FailedInCopy(t) =>
              /\ tk[t].pc = "done"
              /\ Len(tk[t].info) = 1 /\ Len(tk[t].errs) = 1
              /\ tk[t].wrote # {}
        /\ \A p \in tk[t].wrote :
              /\ p \in DOMAIN fs
              /\ (\A u \in Workers \ {t} : p \notin tk[u].wrote) =>
                    fs[p] = SubSeq(Content(t), 1, tk[t].pos)

\* a completed run in which a worker logged "Copying file", wrote the first
\* of two chunks and failed on the second write; the file with one chunk is
\* there
C20_Witness ==
    /\ pcMain = "done"
    /\ \E t \in Workers :
         /\ tk[t].info = <<"copying">> /\ tk[t].errs = <<"write">>
         /\ Content(t) = <<1, 2>>
         /\ tk[t].pos = 1
         /\ fs[NaturalPath(t)] = <<1>>

====
